---------------------------- MODULE Spec2Model ----------------------------
(***************************************************************************)
(* Model of the interactive shell in src/main.py: the REPL loop (main),    *)
(* redirection extraction, the dispatcher (handle_all) and its builtins,   *)
(* the PathIndex built at start-up and the completer given to readline.    *)
(*                                                                         *)
(* Text is modelled as a sequence of characters (one-character strings);   *)
(* fixed message literals of the source are kept as one element each.      *)
(***************************************************************************)
EXTENDS Integers, Sequences, FiniteSets, TLC

(***************************************************************************)
(* Bounds of the model.                                                    *)
(***************************************************************************)
MaxLines == 2
MaxChildWrites == 1

(***************************************************************************)
(* Words of the input alphabet.                                            *)
(***************************************************************************)
SP == <<" ">>
NL == <<"\n">>
w_echo == <<"e", "c", "h", "o">>
w_exit == <<"e", "x", "i", "t">>
w_type == <<"t", "y", "p", "e">>
w_pwd == <<"p", "w", "d">>
w_cd == <<"c", "d">>
w_0 == <<"0">>
w_hi == <<"h", "i">>
w_ls == <<"l", "s">>
w_nope == <<"n", "o", "p", "e">>

op_gt == <<">">>
op_1gt == <<"1", ">">>
op_2gt == <<"2", ">">>
op_gtgt == <<">", ">">>
op_1gtgt == <<"1", ">", ">">>
op_2gtgt == <<"2", ">", ">">>

RedirectOps == {op_gt, op_1gt, op_2gt, op_gtgt, op_1gtgt, op_2gtgt}

p_root == <<"/">>
p_f == <<"/", "f">>
p_g == <<"/", "g">>
p_h == <<"/", "h">>
p_b == <<"/", "b">>
p_bls == <<"/", "b", "/", "l", "s">>
p_btype == <<"/", "b", "/", "t", "y", "p", "e">>
p_bd == <<"/", "b", "/", "d">>
p_bdnope == <<"/", "b", "/", "d", "/", "n", "o", "p", "e">>
p_c == <<"/", "c">>
p_cls == <<"/", "c", "/", "l", "s">>
p_cnope == <<"/", "c", "/", "n", "o", "p", "e">>
p_u == <<"/", "u">>
p_bad == <<"/", "x", "/", "f">>
p_tilde == <<"~">>
p_tildex == <<"~", "x">>
p_rel == <<"h">>

(***************************************************************************)
(* Generic helpers on sequences.                                           *)
(***************************************************************************)
Range(s) == {s[i] : i \in DOMAIN s}

\* list.index(x): position of the first occurrence (x is known to occur)
IndexOf(s, x) == CHOOSE i \in DOMAIN s : s[i] = x /\ \A j \in 1..(i - 1) : s[j] # x

\* str.startswith
StartsWith(s, pre) == Len(s) >= Len(pre) /\ SubSeq(s, 1, Len(pre)) = pre

\* sep.join(words)
RECURSIVE Join(_, _)
Join(words, sep) ==
  IF words = <<>> THEN <<>>
  ELSE IF Len(words) = 1 THEN words[1]
  ELSE words[1] \o sep \o Join(Tail(words), sep)

\* str.replace(c, by) for a one-character pattern c
RECURSIVE Replace(_, _, _)
Replace(s, c, by) ==
  IF s = <<>> THEN <<>>
  ELSE (IF Head(s) = c THEN by ELSE <<Head(s)>>) \o Replace(Tail(s), c, by)

\* str.split(sep) for a one-character separator
RECURSIVE SplitOn(_, _, _)
SplitOn(s, c, cur) ==
  IF s = <<>> THEN <<cur>>
  ELSE IF Head(s) = c THEN <<cur>> \o SplitOn(Tail(s), c, <<>>)
  ELSE SplitOn(Tail(s), c, Append(cur, Head(s)))

(***************************************************************************)
(* shlex.split(line): POSIX mode, whitespace_split, no comments.  The      *)
(* result is [ok |-> TRUE, toks |-> ...] or [ok |-> FALSE] when shlex      *)
(* raises ValueError (no closing quotation / no escaped character).        *)
(* st is the lexer state: " " (between words), "a" (in a word), a quote    *)
(* character (inside quotes) or "\\" (after an escape); esc is the state   *)
(* to return to after the escape.                                          *)
(***************************************************************************)
Whitespace == {" ", "\t", "\r", "\n"}
Quotes == {"'", "\""}
Escape == "\\"
EscapedQuotes == {"\""}

RECURSIVE read_token(_, _, _, _, _, _, _)
read_token(s, i, st, esc, tok, quoted, toks) ==
  IF i > Len(s) THEN
    IF st \in Quotes \/ st = Escape THEN [ok |-> FALSE, toks |-> <<>>]
    ELSE IF tok # <<>> \/ quoted THEN [ok |-> TRUE, toks |-> Append(toks, tok)]
    ELSE [ok |-> TRUE, toks |-> toks]
  ELSE
    LET c == s[i] IN
    IF st = " " THEN
      IF c \in Whitespace THEN read_token(s, i + 1, " ", esc, <<>>, FALSE, toks)
      ELSE IF c = Escape THEN read_token(s, i + 1, Escape, "a", tok, quoted, toks)
      ELSE IF c \in Quotes THEN read_token(s, i + 1, c, esc, tok, quoted, toks)
      ELSE read_token(s, i + 1, "a", esc, <<c>>, quoted, toks)
    ELSE IF st \in Quotes THEN
      IF c = st THEN read_token(s, i + 1, "a", esc, tok, TRUE, toks)
      ELSE IF c = Escape /\ st \in EscapedQuotes
        THEN read_token(s, i + 1, Escape, st, tok, TRUE, toks)
      ELSE read_token(s, i + 1, st, esc, Append(tok, c), TRUE, toks)
    ELSE IF st = Escape THEN
      IF esc \in Quotes /\ c # Escape /\ c # esc
        THEN read_token(s, i + 1, esc, esc, tok \o <<Escape, c>>, quoted, toks)
      ELSE read_token(s, i + 1, esc, esc, Append(tok, c), quoted, toks)
    ELSE \* st = "a"
      IF c \in Whitespace THEN
        IF tok # <<>> \/ quoted
          THEN read_token(s, i + 1, " ", esc, <<>>, FALSE, Append(toks, tok))
        ELSE read_token(s, i + 1, " ", esc, <<>>, FALSE, toks)
      ELSE IF c \in Quotes THEN read_token(s, i + 1, c, esc, tok, quoted, toks)
      ELSE IF c = Escape THEN read_token(s, i + 1, Escape, "a", tok, quoted, toks)
      ELSE read_token(s, i + 1, "a", esc, Append(tok, c), quoted, toks)

shlex_split(line) == read_token(line, 1, " ", "a", <<>>, FALSE, <<>>)


(***************************************************************************)
(* Paths and the file system.  fs maps every existing absolute path to     *)
(* [kind |-> "dir" | "file", data |-> content, x |-> executable,            *)
(*  r |-> readable].                                                       *)
(***************************************************************************)
LastSlash(p) == CHOOSE i \in DOMAIN p : p[i] = "/" /\ \A j \in (i + 1)..Len(p) : p[j] # "/"

\* directory part of an absolute path
Parent(p) == IF LastSlash(p) = 1 THEN p_root ELSE SubSeq(p, 1, LastSlash(p) - 1)

\* final component of an absolute path
Name(p) == SubSeq(p, LastSlash(p) + 1, Len(p))

\* the absolute path the OS resolves `path` to when the working directory is wd
Resolve(wd, path) ==
  IF path = <<>> THEN wd
  ELSE IF Head(path) = "/" THEN path
  ELSE IF wd = p_root THEN p_root \o path
  ELSE wd \o <<"/">> \o path

IsDir(f, p) == p \in DOMAIN f /\ f[p].kind = "dir"

\* pathlib: Path(dir) / name
EntryPath(dir, name) ==
  IF dir = <<>> THEN name
  ELSE IF dir[Len(dir)] = "/" THEN dir \o name
  ELSE dir \o <<"/">> \o name

(***************************************************************************)
(* SHELL_BUILTINS and the PathIndex construction.                          *)
(***************************************************************************)
SHELL_BUILTINS == {w_echo, w_exit, w_type, w_pwd, w_cd}

\* a faulty ScanDir: a name an earlier directory put in the index is kept
ScanDir_FirstWins(f, wd, dir, programs) ==
  LET d == Resolve(wd, dir)
      found == {p \in DOMAIN f : p # p_root /\ Parent(p) = d /\ f[p].kind = "file" /\ f[p].x}
      names == {Name(p) : p \in found}
  IN [n \in (DOMAIN programs) \cup names |->
        IF n \in DOMAIN programs THEN programs[n] ELSE EntryPath(dir, n)]

\* one directory of the scan: the entries that are executable regular files
\* are inserted, overwriting what an earlier directory put there
ScanDir(f, wd, dir, programs) ==
  LET d == Resolve(wd, dir)
      found == {p \in DOMAIN f : p # p_root /\ Parent(p) = d /\ f[p].kind = "file" /\ f[p].x}
      names == {Name(p) : p \in found}
  IN [n \in (DOMAIN programs) \cup names |->
        IF n \in names THEN EntryPath(dir, n) ELSE programs[n]]

RECURSIVE ScanDirs(_, _, _, _)
ScanDirs(f, wd, dirs, acc) ==
  IF dirs = <<>> \/ acc.exc # "none" THEN acc
  ELSE LET d == Resolve(wd, Head(dirs)) IN
    IF d \notin DOMAIN f THEN ScanDirs(f, wd, Tail(dirs), acc)
    ELSE IF f[d].kind # "dir" THEN [acc EXCEPT !.exc = "NotADirectoryError"]
    ELSE IF ~f[d].r THEN [acc EXCEPT !.exc = "PermissionError"]
    ELSE ScanDirs(f, wd, Tail(dirs),
                  [acc EXCEPT !.programs = ScanDir(f, wd, Head(dirs), acc.programs)])

parse_programs_in_path(path, f, wd, programs) ==
  ScanDirs(f, wd, SplitOn(path, ":", <<>>), [exc |-> "none", programs |-> programs])

(***************************************************************************)
(* Ordering of strings and sorted(), for COMPLETIONS and complete.         *)
(***************************************************************************)
\* the builtin names in the order of the list SHELL_BUILTINS
SHELL_BUILTINS_list == <<w_echo, w_exit, w_type, w_pwd, w_cd>>

Letters == <<"a", "b", "c", "d", "e", "f", "g", "h", "i", "j", "k", "l", "m",
             "n", "o", "p", "q", "r", "s", "t", "u", "v", "w", "x", "y", "z">>

\* code point of a lower-case letter
ord(c) == 96 + IndexOf(Letters, c)

\* a < b for strings: comparison by code points, a proper prefix is smaller
RECURSIVE StrLess(_, _)
StrLess(a, b) ==
  IF b = <<>> THEN FALSE
  ELSE IF a = <<>> THEN TRUE
  ELSE IF Head(a) # Head(b) THEN ord(Head(a)) < ord(Head(b))
  ELSE StrLess(Tail(a), Tail(b))

\* insertion of x into the sorted list l, after the elements not above it
RECURSIVE insort(_, _)
insort(l, x) ==
  IF l = <<>> THEN <<x>>
  ELSE IF StrLess(x, Head(l)) THEN <<x>> \o l
  ELSE <<Head(l)>> \o insort(Tail(l), x)

\* sorted(list): duplicates are kept
RECURSIVE sorted(_)
sorted(l) ==
  IF l = <<>> THEN <<>>
  ELSE insort(sorted(SubSeq(l, 1, Len(l) - 1)), l[Len(l)])

\* the elements of a set as a list, in some order (dict.keys(), set())
RECURSIVE listing(_)
listing(S) ==
  IF S = {} THEN <<>>
  ELSE LET x == CHOOSE y \in S : TRUE IN <<x>> \o listing(S \ {x})

keys(programs) == listing(DOMAIN programs)

(***************************************************************************)
(* State of the process.                                                   *)
(*   pc      "start" (module level, before the PathIndex is built),        *)
(*           "prompt" (top of the loop), "input" (blocked in input()),     *)
(*           "spawn" (calling subprocess.Popen), "wait" (blocked in        *)
(*           process.wait()), "done" (terminated)                          *)
(*   line, cmds, out, err, close_out, close_err   locals of main           *)
(*   branch  the case of handle_all that matched on the last line          *)
(*   exc     the exception that ended the process, status its exit status  *)
(*   stdout, stderr   what the session's streams have received             *)
(*   handles the open file objects: [fd, file, mode, pos]                  *)
(*   opened  the open() calls that succeeded on the last line, in order    *)
(*   child   the child process, if any                                     *)
(*   completion   the last call of complete by readline and its result     *)
(* out and err refer to file objects [fd, name, mode]: sys.stdout (fd 1),   *)
(* sys.stderr (fd 2) or a file opened for redirection; a file object keeps *)
(* its name and mode after it is closed.                                   *)
(***************************************************************************)
VARIABLES pc, nread, line, cmds, out, err, close_out, close_err, branch, exc,
          status, stdout, stderr, fs, cwd, handles, opened, child,
          HOME, PATH, PROGRAMS_IN_PATH, COMPLETIONS, completion

vars == <<pc, nread, line, cmds, out, err, close_out, close_err, branch, exc,
          status, stdout, stderr, fs, cwd, handles, opened, child,
          HOME, PATH, PROGRAMS_IN_PATH, COMPLETIONS, completion>>

DirEntry == [kind |-> "dir", data |-> <<>>, x |-> TRUE, r |-> TRUE]
FileEntry(d, x) == [kind |-> "file", data |-> d, x |-> x, r |-> TRUE]
SysStdout == [fd |-> 1, name |-> <<"<stdout>">>, mode |-> "w"]
SysStderr == [fd |-> 2, name |-> <<"<stderr>">>, mode |-> "w"]
NoChild == [alive |-> FALSE, argv |-> <<>>, stdout |-> 0, stderr |-> 0, writes |-> 0]

\* the value of `completion` when complete was not called yet
NoCompletion == [called |-> FALSE, text |-> <<>>, state |-> 0, some |-> FALSE,
                 value |-> <<>>]

\* a faulty Popen: the child inherits the session's streams
Popen_InheritsSession(argv, o, e) ==
  [alive |-> TRUE, argv |-> argv, stdout |-> 1, stderr |-> 2, writes |-> 0]

\* subprocess.Popen([cmd, *args], stdout=out, stderr=err)
Popen(argv, o, e) ==
  [alive |-> TRUE, argv |-> argv, stdout |-> o.fd, stderr |-> e.fd, writes |-> 0]

PROMPT == <<"$", " ">>
DEFAULT_HOME == <<"/", "r", "o", "o", "t">>
Traceback(e) == <<"Traceback (most recent call last):\n", e, "\n">>

\* the file system the shell is started in
\* the file system the shell is started in: /b and /c both hold an
\* executable ls, /b holds an executable named like the builtin type and a
\* subdirectory with an executable in it, /c holds a file that is not
\* executable, /u is a directory the user may not list
InitialFs ==
  (p_root :> DirEntry) @@ (p_h :> DirEntry) @@ (p_b :> DirEntry)
  @@ (p_bls :> FileEntry(<<"#">>, TRUE)) @@ (p_f :> FileEntry(<<"p">>, FALSE))
  @@ (p_btype :> FileEntry(<<"#">>, TRUE)) @@ (p_bd :> DirEntry)
  @@ (p_bdnope :> FileEntry(<<"#">>, TRUE))
  @@ (p_c :> DirEntry) @@ (p_cls :> FileEntry(<<"#">>, TRUE))
  @@ (p_cnope :> FileEntry(<<"#">>, FALSE))
  @@ (p_u :> [DirEntry EXCEPT !.r = FALSE])

\* the environments the shell is started in: HOME and PATH set (PATH names
\* a missing directory, then /b, then /c), neither set, or PATH naming the
\* unreadable directory before /b
InitialEnvs ==
  { [HOME |-> p_h, PATH |-> <<"/", "x", ":", "/", "b", ":", "/", "c">>],
    [HOME |-> <<>>, PATH |-> <<>>],
    [HOME |-> p_h, PATH |-> <<"/", "u", ":", "/", "b">>] }

\* the part of the state one loop iteration works on
Cur ==
  [cmds |-> cmds, out |-> out, err |-> err, close_out |-> close_out,
   close_err |-> close_err, branch |-> branch, exc |-> exc, stdout |-> stdout,
   stderr |-> stderr, fs |-> fs, cwd |-> cwd, handles |-> handles,
   opened |-> opened, child |-> child]

Assign(s) ==
  /\ cmds' = s.cmds /\ out' = s.out /\ err' = s.err
  /\ close_out' = s.close_out /\ close_err' = s.close_err
  /\ branch' = s.branch /\ exc' = s.exc /\ stdout' = s.stdout
  /\ stderr' = s.stderr /\ fs' = s.fs /\ cwd' = s.cwd
  /\ handles' = s.handles /\ opened' = s.opened /\ child' = s.child

(***************************************************************************)
(* File objects.                                                           *)
(***************************************************************************)
Fds(hs) == {h.fd : h \in hs}

\* the lowest descriptor not in use
FreeFd(hs) == CHOOSE n \in 3..(3 + Cardinality(hs)) :
                 n \notin Fds(hs) /\ \A m \in 3..(n - 1) : m \in Fds(hs)

\* a faulty OpenedData: append mode truncates as well
OpenedData_AlwaysTruncates(old, mode) == <<>>

\* content of an existing file once it is opened with mode "w" or "a"
OpenedData(old, mode) == IF mode = "w" THEN <<>> ELSE old

\* a faulty open: an existing file keeps its content in mode "w" too
open_KeepsData(s, path, mode) ==
  LET a == Resolve(s.cwd, path)
      fail(e) == [exc |-> e, fs |-> s.fs, handles |-> s.handles, fd |-> 0]
  IN IF path = <<>> THEN fail("FileNotFoundError")
     ELSE IF IsDir(s.fs, a) THEN fail("IsADirectoryError")
     ELSE IF a \notin DOMAIN s.fs /\ Parent(a) \notin DOMAIN s.fs THEN fail("FileNotFoundError")
     ELSE IF a \notin DOMAIN s.fs /\ ~IsDir(s.fs, Parent(a)) THEN fail("NotADirectoryError")
     ELSE [exc |-> "none",
           fs |-> IF a \notin DOMAIN s.fs THEN s.fs @@ (a :> FileEntry(<<>>, FALSE))
                  ELSE s.fs,
           handles |-> s.handles \cup {[fd |-> FreeFd(s.handles), file |-> a,
                                        mode |-> mode, pos |-> 0]},
           fd |-> FreeFd(s.handles)]

\* open(path, mode) for mode "w" or "a"
open(s, path, mode) ==
  LET a == Resolve(s.cwd, path)
      fail(e) == [exc |-> e, fs |-> s.fs, handles |-> s.handles, fd |-> 0]
  IN IF path = <<>> THEN fail("FileNotFoundError")
     ELSE IF IsDir(s.fs, a) THEN fail("IsADirectoryError")
     ELSE IF a \notin DOMAIN s.fs /\ Parent(a) \notin DOMAIN s.fs THEN fail("FileNotFoundError")
     ELSE IF a \notin DOMAIN s.fs /\ ~IsDir(s.fs, Parent(a)) THEN fail("NotADirectoryError")
     ELSE [exc |-> "none",
           fs |-> IF a \notin DOMAIN s.fs THEN s.fs @@ (a :> FileEntry(<<>>, FALSE))
                  ELSE [s.fs EXCEPT ![a].data = OpenedData(@, mode)],
           handles |-> s.handles \cup {[fd |-> FreeFd(s.handles), file |-> a,
                                        mode |-> mode, pos |-> 0]},
           fd |-> FreeFd(s.handles)]

\* the file object open() returns
FileObject(s, path, mode, fd) == [fd |-> fd, name |-> Resolve(s.cwd, path), mode |-> mode]

\* data written at offset pos of a file (pos never exceeds the file's length)
WriteAt(data, pos, text) ==
  SubSeq(data, 1, pos) \o text \o SubSeq(data, pos + Len(text) + 1, Len(data))

\* stream.write(text) / a write(2) on descriptor fd
Write(s, fd, text) ==
  IF fd = 1 THEN [s EXCEPT !.stdout = @ \o text]
  ELSE IF fd = 2 THEN [s EXCEPT !.stderr = @ \o text]
  ELSE LET h == CHOOSE h \in s.handles : h.fd = fd
           old == s.fs[h.file].data
           new == IF h.mode = "a" THEN old \o text ELSE WriteAt(old, h.pos, text)
           h2 == IF h.mode = "a" THEN h ELSE [h EXCEPT !.pos = @ + Len(text)]
       IN [s EXCEPT !.fs = [@ EXCEPT ![h.file].data = new],
                    !.handles = (@ \ {h}) \cup {h2}]

\* stream.close()
Close(s, fd) == [s EXCEPT !.handles = {h \in @ : h.fd # fd}]

(***************************************************************************)
(* Redirection extraction (main, the six blocks inside the try).           *)
(***************************************************************************)
\* a faulty RemovePair: only the operator is removed, its target stays
RemovePair_KeepsTarget(c, out_index) ==
  SubSeq(c, 1, out_index - 1) \o SubSeq(c, out_index + 1, Len(c))

\* cmds[:out_index] + cmds[out_index + 2:]   (out_index is 1-based here)
RemovePair(c, out_index) == SubSeq(c, 1, out_index - 1) \o SubSeq(c, out_index + 2, Len(c))

\* One `if op in cmds: ... elif op2 in cmds: ...` block.  ops lists the
\* operators of the block in if/elif order, chan is the stream it rebinds.
\* Rebinding a stream that already holds a file object drops the last
\* reference to that object without closing it: the object stays open until
\* the runtime finalizes it (action finalize).
RedirectStep(s, ops, chan, mode) ==
  IF s.exc # "none" THEN s
  ELSE IF \A i \in DOMAIN ops : ops[i] \notin Range(s.cmds) THEN s
  ELSE
    LET k == CHOOSE i \in DOMAIN ops :
               ops[i] \in Range(s.cmds) /\ \A j \in 1..(i - 1) : ops[j] \notin Range(s.cmds)
        out_index == IndexOf(s.cmds, ops[k])
    IN IF out_index + 1 > Len(s.cmds) THEN [s EXCEPT !.exc = "IndexError"]
       ELSE
         LET o == open(s, s.cmds[out_index + 1], mode)
             f == FileObject(s, s.cmds[out_index + 1], mode, o.fd)
         IN IF o.exc # "none" THEN [s EXCEPT !.exc = o.exc]
            ELSE [s EXCEPT !.fs = o.fs,
                           !.handles = o.handles,
                           !.opened = Append(@, [name |-> f.name, mode |-> mode]),
                           !.out = IF chan = "out" THEN f ELSE @,
                           !.close_out = IF chan = "out" THEN TRUE ELSE @,
                           !.err = IF chan = "err" THEN f ELSE @,
                           !.close_err = IF chan = "err" THEN TRUE ELSE @,
                           !.cmds = RemovePair(s.cmds, out_index)]

\* a faulty Redirect: the append operators are processed before the
\* truncate operators
Redirect_AppendFirst(s) ==
  LET s1 == RedirectStep(s, <<op_gtgt, op_1gtgt>>, "out", "a")
      s2 == RedirectStep(s1, <<op_2gtgt>>, "err", "a")
      s3 == RedirectStep(s2, <<op_gt, op_1gt>>, "out", "w")
  IN RedirectStep(s3, <<op_2gt>>, "err", "w")

Redirect(s) ==
  LET s1 == RedirectStep(s, <<op_gt, op_1gt>>, "out", "w")
      s2 == RedirectStep(s1, <<op_2gt>>, "err", "w")
      s3 == RedirectStep(s2, <<op_gtgt, op_1gtgt>>, "out", "a")
  IN RedirectStep(s3, <<op_2gtgt>>, "err", "a")

\* the finally block of main
Finally(s) ==
  LET s1 == IF s.close_out THEN Close(s, s.out.fd) ELSE s
  IN IF s1.close_err THEN Close(s1, s1.err.fd) ELSE s1

(***************************************************************************)
(* The dispatcher and the builtins.                                        *)
(***************************************************************************)
\* a faulty type_command: the PathIndex is consulted before the builtins
type_command_PathFirst(s, command) ==
  IF command \in DOMAIN PROGRAMS_IN_PATH
    THEN Write(s, s.out.fd, command \o <<" is ">> \o PROGRAMS_IN_PATH[command] \o NL)
  ELSE IF command \in SHELL_BUILTINS
    THEN Write(s, s.out.fd, command \o <<" is a shell builtin\n">>)
  ELSE Write(s, s.out.fd, command \o <<": not found\n">>)

type_command(s, command) ==
  IF command \in SHELL_BUILTINS
    THEN Write(s, s.out.fd, command \o <<" is a shell builtin\n">>)
  ELSE IF command \in DOMAIN PROGRAMS_IN_PATH
    THEN Write(s, s.out.fd, command \o <<" is ">> \o PROGRAMS_IN_PATH[command] \o NL)
  ELSE Write(s, s.out.fd, command \o <<": not found\n">>)

\* the path cd works on, after the `~` replacement
cd_path(path) ==
  IF StartsWith(path, <<"~">>)
    THEN Replace(path, "~", IF HOME # <<>> THEN HOME ELSE DEFAULT_HOME)
  ELSE path

\* a faulty cd: the directory is changed without the test that it exists
cd_Unchecked(s, path) ==
  LET p == Resolve(s.cwd, cd_path(path)) IN
  IF p \in DOMAIN s.fs /\ s.fs[p].kind # "dir" THEN [s EXCEPT !.exc = "NotADirectoryError"]
  ELSE [s EXCEPT !.cwd = p]

cd(s, path) ==
  LET p == Resolve(s.cwd, cd_path(path)) IN
  IF p \notin DOMAIN s.fs
    THEN Write(s, s.out.fd, <<"cd: ">> \o cd_path(path) \o <<": No such file or directory\n">>)
  ELSE IF s.fs[p].kind # "dir" THEN [s EXCEPT !.exc = "NotADirectoryError"]
  ELSE [s EXCEPT !.cwd = p]

\* a faulty command_not_found: only the command name is reported
command_not_found_NameOnly(command) ==
  (IF command = <<>> THEN <<>> ELSE command[1]) \o <<": command not found\n">>

\* the text of the last case of handle_all
command_not_found(command) == Join(command, SP) \o <<": command not found\n">>

\* a faulty handle_all: the `type` case takes its first argument and accepts
\* further ones
handle_all_TypeAnyArity(s) ==
  LET c == s.cmds IN
  IF Len(c) >= 1 /\ c[1] = w_echo
    THEN [Write(s, s.out.fd, Join(Tail(c), SP) \o NL) EXCEPT !.branch = "echo"]
  ELSE IF Len(c) >= 2 /\ c[1] = w_type
    THEN [type_command(s, c[2]) EXCEPT !.branch = "type"]
  ELSE IF c = <<w_exit, w_0>>
    THEN [s EXCEPT !.exc = "SystemExit", !.branch = "exit"]
  ELSE IF c = <<w_pwd>>
    THEN [Write(s, s.out.fd, s.cwd \o NL) EXCEPT !.branch = "pwd"]
  ELSE IF Len(c) = 2 /\ c[1] = w_cd
    THEN [cd(s, c[2]) EXCEPT !.branch = "cd"]
  ELSE IF Len(c) >= 1 /\ c[1] \in DOMAIN PROGRAMS_IN_PATH
    THEN [s EXCEPT !.branch = "spawn"]
  ELSE [Write(s, s.out.fd, command_not_found(c)) EXCEPT !.branch = "unknown"]

\* The case that spawns a child stops at the call of subprocess.Popen
\* (branch "spawn"); actions popen_ok and popen_fail continue from there.
handle_all(s) ==
  LET c == s.cmds IN
  IF Len(c) >= 1 /\ c[1] = w_echo
    THEN [Write(s, s.out.fd, Join(Tail(c), SP) \o NL) EXCEPT !.branch = "echo"]
  ELSE IF Len(c) = 2 /\ c[1] = w_type
    THEN [type_command(s, c[2]) EXCEPT !.branch = "type"]
  ELSE IF c = <<w_exit, w_0>>
    THEN [s EXCEPT !.exc = "SystemExit", !.branch = "exit"]
  ELSE IF c = <<w_pwd>>
    THEN [Write(s, s.out.fd, s.cwd \o NL) EXCEPT !.branch = "pwd"]
  ELSE IF Len(c) = 2 /\ c[1] = w_cd
    THEN [cd(s, c[2]) EXCEPT !.branch = "cd"]
  ELSE IF Len(c) >= 1 /\ c[1] \in DOMAIN PROGRAMS_IN_PATH
    THEN [s EXCEPT !.branch = "spawn"]
  ELSE [Write(s, s.out.fd, command_not_found(c)) EXCEPT !.branch = "unknown"]

(***************************************************************************)
(* The completer registered with readline.  The result is                  *)
(* [some |-> TRUE, value |-> candidate] or [some |-> FALSE] for None.      *)
(***************************************************************************)
None == [some |-> FALSE, value |-> <<>>]
Some(v) == [some |-> TRUE, value |-> v]

\* a faulty complete: the matches are not deduplicated
complete_NoDedup(text, state) ==
  LET Matching(n) == StartsWith(n, text)
      matches == sorted(SelectSeq(COMPLETIONS, Matching))
  IN IF Len(matches) = 1
       THEN (IF state < Len(matches) THEN Some(matches[state + 1] \o SP) ELSE None)
     ELSE (IF state < Len(matches) THEN Some(matches[state + 1]) ELSE None)

complete(text, state) ==
  LET Matching(n) == StartsWith(n, text)
      matches == sorted(listing(Range(SelectSeq(COMPLETIONS, Matching))))
  IN IF Len(matches) = 1
       THEN (IF state < Len(matches) THEN Some(matches[state + 1] \o SP) ELSE None)
     ELSE (IF state < Len(matches) THEN Some(matches[state + 1]) ELSE None)

(***************************************************************************)
(* Leaving an iteration.                                                   *)
(***************************************************************************)
\* a faulty ExitStatus: every exception, SystemExit(0) too, is a failure
ExitStatus_AlwaysFailure(e) == 1

\* exit status of the interpreter for the exception that left main
ExitStatus(e) == IF e = "SystemExit" THEN 0 ELSE 1

\* an exception leaves main: SystemExit(0) ends the process silently, any
\* other exception is reported by the interpreter as a traceback on stderr
Terminate(s) ==
  /\ pc' = "done"
  /\ status' = ExitStatus(s.exc)
  /\ Assign(IF s.exc = "SystemExit" THEN s ELSE Write(s, 2, Traceback(s.exc)))

\* the end of a loop iteration after the finally block
Commit(s) ==
  IF s.exc = "none" THEN pc' = "prompt" /\ status' = status /\ Assign(s)
  ELSE Terminate(s)

(***************************************************************************)
(* The input lines offered to the shell.                                   *)
(***************************************************************************)
L(words) == Join(words, SP)

Lines ==
  { <<>>,                                               \* empty line
    L(<<w_echo, w_hi>>),
    <<"e", "c", "h", "o", " ", "'", "h", "i">>,         \* echo 'hi
    L(<<w_echo, w_hi, op_gt, p_f>>),
    L(<<w_echo, w_hi, op_1gt, p_g>>),
    L(<<w_echo, w_hi, op_gtgt, p_f>>),
    L(<<w_echo, w_hi, op_1gtgt, p_g>>),
    L(<<w_echo, w_hi, op_gt, p_f, op_gtgt, p_g>>),
    L(<<w_echo, w_hi, op_gt, p_f, op_gtgt, p_f>>),
    L(<<w_echo, w_hi, op_2gt, p_f, op_2gtgt, p_g>>),
    L(<<w_echo, w_hi, op_gt, p_bad>>),
    L(<<w_echo, w_hi, op_gt, p_g, op_2gt, p_bad>>),
    L(<<w_echo, w_hi, op_gt, p_f, op_gt, p_g>>),
    L(<<w_echo, w_hi, op_gt, p_f, op_1gt, p_g>>),
    L(<<w_echo, w_hi, op_gt>>),
    L(<<w_echo, w_hi, op_2gt, op_gtgt, p_g>>),
    <<"n", "o", "p", "e", " ", " ", "h", "i">>,         \* nope  hi
    L(<<w_nope, op_gt, p_g>>),
    L(<<w_cd, p_rel>>),
    L(<<w_cd, p_tilde>>),
    L(<<w_cd, p_tildex>>),
    L(<<w_cd, p_f>>),
    L(<<w_cd>>),
    L(<<w_pwd>>),
    L(<<w_pwd, op_gtgt, p_f>>),
    L(<<w_type, w_type>>),
    L(<<w_type, w_cd, w_hi>>),
    L(<<w_type, w_ls>>),
    L(<<w_type, w_nope>>),
    L(<<w_type>>),
    L(<<w_exit, w_0>>),
    L(<<w_exit, w_0, op_gt, p_g>>),
    L(<<w_exit, w_0, op_gt, p_bad>>),
    L(<<w_exit, w_0, op_gt, p_f, op_gt, p_g>>),
    L(<<w_ls>>),
    L(<<w_ls, w_hi, op_gt, p_g, op_2gt, p_f>>) }

(***************************************************************************)
(* Actions.                                                                *)
(***************************************************************************)
Init ==
  /\ pc = "start" /\ nread = 0 /\ line = <<>> /\ cmds = <<>>
  /\ out = SysStdout /\ err = SysStderr /\ close_out = FALSE /\ close_err = FALSE
  /\ branch = "none" /\ exc = "none" /\ status = -1
  /\ stdout = <<>> /\ stderr = <<>>
  /\ fs = InitialFs /\ cwd = p_root /\ handles = {} /\ opened = <<>>
  /\ child = NoChild
  /\ \E e \in InitialEnvs : HOME = e.HOME /\ PATH = e.PATH
  /\ PROGRAMS_IN_PATH = <<>>
  /\ COMPLETIONS = <<>>
  /\ completion = NoCompletion

\* module level: parse_programs_in_path(os.getenv("PATH", ""), PROGRAMS_IN_PATH)
\* followed by COMPLETIONS = sorted([*SHELL_BUILTINS, *PROGRAMS_IN_PATH.keys()])
startup ==
  /\ pc = "start"
  /\ LET r == parse_programs_in_path(PATH, fs, cwd, PROGRAMS_IN_PATH) IN
       IF r.exc = "none"
         THEN /\ PROGRAMS_IN_PATH' = r.programs
              /\ COMPLETIONS' = sorted(SHELL_BUILTINS_list \o keys(r.programs))
              /\ pc' = "prompt"
              /\ UNCHANGED <<status, cmds, out, err, close_out, close_err, branch, exc,
                             stdout, stderr, fs, cwd, handles, opened, child>>
       ELSE /\ PROGRAMS_IN_PATH' = PROGRAMS_IN_PATH
            /\ COMPLETIONS' = COMPLETIONS
            /\ Terminate([Cur EXCEPT !.exc = r.exc])
  /\ UNCHANGED <<nread, line, HOME, PATH, completion>>

\* sys.stdout.write("$ ")
main_prompt ==
  /\ pc = "prompt"
  /\ pc' = "input"
  /\ stdout' = stdout \o PROMPT
  /\ UNCHANGED <<nread, line, cmds, out, err, close_out, close_err, branch, exc,
                 status, stderr, fs, cwd, handles, opened, child, HOME, PATH,
                 PROGRAMS_IN_PATH, COMPLETIONS, completion>>

\* input() returns the line l: one iteration of the loop, up to the next
\* prompt, the end of the process or the call that spawns a child
main_line(l) ==
  /\ pc = "input"
  /\ nread < MaxLines
  /\ nread' = nread + 1
  /\ line' = l
  /\ LET t == shlex_split(l) IN
       IF ~t.ok THEN Terminate([Cur EXCEPT !.exc = "ValueError", !.branch = "none",
                                     !.opened = <<>>])
       ELSE
         LET s0 == [Cur EXCEPT !.cmds = t.toks, !.out = SysStdout, !.err = SysStderr,
                               !.close_out = FALSE, !.close_err = FALSE,
                               !.branch = "none", !.opened = <<>>]
             s1 == Redirect(s0)
             s2 == IF s1.exc = "none" THEN handle_all(s1) ELSE s1
         IN IF s2.exc = "none" /\ s2.branch = "spawn"
              THEN pc' = "spawn" /\ status' = status /\ Assign(s2)
            ELSE Commit(Finally(s2))
  /\ UNCHANGED <<HOME, PATH, PROGRAMS_IN_PATH, COMPLETIONS, completion>>

\* input() raises EOFError: there is no more input
main_eof ==
  /\ pc = "input"
  /\ Terminate([Cur EXCEPT !.exc = "EOFError"])
  /\ UNCHANGED <<nread, line, HOME, PATH, PROGRAMS_IN_PATH, COMPLETIONS, completion>>

\* subprocess.Popen([cmd, *args], stdout=out, stderr=err) starts the child
popen_ok ==
  /\ pc = "spawn"
  /\ pc' = "wait"
  /\ child' = Popen(cmds, out, err)
  /\ UNCHANGED <<nread, line, cmds, out, err, close_out, close_err, branch, exc,
                 status, stdout, stderr, fs, cwd, handles, opened, HOME, PATH,
                 PROGRAMS_IN_PATH, COMPLETIONS, completion>>

\* subprocess.Popen raises OSError: the operating system refuses the spawn
popen_fail ==
  /\ pc = "spawn"
  /\ Commit(Finally([Cur EXCEPT !.exc = "OSError"]))
  /\ UNCHANGED <<nread, line, HOME, PATH, PROGRAMS_IN_PATH, COMPLETIONS, completion>>

\* the child writes to the standard output or standard error it was given
child_write(chan) ==
  /\ pc = "wait"
  /\ child.writes < MaxChildWrites
  /\ LET s == IF chan = "out" THEN Write(Cur, child.stdout, <<"o">>)
              ELSE Write(Cur, child.stderr, <<"e">>)
     IN Assign([s EXCEPT !.child.writes = @ + 1])
  /\ UNCHANGED <<pc, status, nread, line, HOME, PATH, PROGRAMS_IN_PATH, COMPLETIONS, completion>>

\* the child exits: process.wait() returns, the finally block runs
child_exit ==
  /\ pc = "wait"
  /\ Commit(Finally([Cur EXCEPT !.child = NoChild]))
  /\ UNCHANGED <<nread, line, HOME, PATH, PROGRAMS_IN_PATH, COMPLETIONS, completion>>

\* the runtime finalizes file objects that nothing refers to any more
finalize ==
  /\ pc # "done"
  /\ \E h \in handles : h.fd \notin {out.fd, err.fd}
  /\ handles' = {h \in handles : h.fd \in {out.fd, err.fd}}
  /\ UNCHANGED <<pc, nread, line, cmds, out, err, close_out, close_err, branch, exc,
                 status, stdout, stderr, fs, cwd, opened, child, HOME, PATH,
                 PROGRAMS_IN_PATH, COMPLETIONS, completion>>

\* readline calls complete(text, state) while input() waits for the line
tab_complete(text, state) ==
  /\ pc = "input"
  /\ completion' = [called |-> TRUE, text |-> text, state |-> state,
                    some |-> complete(text, state).some,
                    value |-> complete(text, state).value]
  /\ UNCHANGED <<pc, nread, line, cmds, out, err, close_out, close_err, branch, exc,
                 status, stdout, stderr, fs, cwd, handles, opened, child, HOME, PATH,
                 PROGRAMS_IN_PATH, COMPLETIONS>>

Next ==
  \/ startup
  \/ main_prompt
  \/ \E l \in Lines : main_line(l)
  \/ main_eof
  \/ popen_ok
  \/ popen_fail
  \/ \E chan \in {"out", "err"} : child_write(chan)
  \/ child_exit
  \/ finalize

Spec == Init /\ [][Next]_vars

(***************************************************************************)
(* The completer on its own: the shell starts, prompts, and readline asks  *)
(* for the candidates of a prefix, state after state.                      *)
(***************************************************************************)
MaxState == 7

Prefixes ==
  { <<>>, <<"e">>, <<"e", "c">>, <<"e", "x">>, w_type, <<"t">>, <<"l">>, w_ls,
    <<"p">>, <<"c">>, <<"n">>, <<"l", "s", "b">> }

NextComplete ==
  \/ startup
  \/ main_prompt
  \/ \E text \in Prefixes, state \in 0..MaxState : tab_complete(text, state)

SpecComplete == Init /\ [][NextComplete]_vars

(***************************************************************************)
(* Properties.                                                             *)
(***************************************************************************)
\* the tokens of the last line read
T == shlex_split(line).toks

\* a step of main_line: a line is read and processed
LineStep == pc = "input" /\ nread' = nread + 1

\* the tokens of the line read by the step
TP == shlex_split(line').toks

\* every operator occurs at most once, no operator occurs together with its
\* alias (`>` with `1>`, `>>` with `1>>`), and every operator is followed
\* by a token that is not an operator
WellFormed(t) ==
  /\ \A i, j \in DOMAIN t : (t[i] \in RedirectOps /\ t[i] = t[j]) => i = j
  /\ ~(op_gt \in Range(t) /\ op_1gt \in Range(t))
  /\ ~(op_gtgt \in Range(t) /\ op_1gtgt \in Range(t))
  /\ \A i \in DOMAIN t : t[i] \in RedirectOps => (i < Len(t) /\ t[i + 1] \notin RedirectOps)

\* t without the operator tokens and without the tokens that follow them
RECURSIVE Strip(_)
Strip(t) ==
  IF t = <<>> THEN <<>>
  ELSE IF Head(t) \in RedirectOps
    THEN (IF Len(t) >= 2 THEN Strip(SubSeq(t, 3, Len(t))) ELSE <<>>)
  ELSE <<Head(t)>> \o Strip(Tail(t))

Builtins == {"echo", "type", "exit", "pwd", "cd"}

\* the step leaves everything but the prompt position untouched
Silent == stdout' = stdout /\ stderr' = stderr

\* what the dispatched command writes when its stdout is the session's
\* (the command of the step, run without redirection)
UnredirectedOutput ==
  handle_all([Cur EXCEPT !.cmds = cmds', !.out = SysStdout, !.err = SysStderr,
                         !.stdout = <<>>, !.fs = fs']).stdout

\* content of the file bound to stdout before the step
PriorContent == IF out'.name \in DOMAIN fs THEN fs[out'.name].data ELSE <<>>

\* content of the file bound to stdout when the command started: nothing
\* if a truncating open of the line hit the same file
ContentAtStart ==
  IF \E i \in DOMAIN opened' : opened'[i].mode = "w" /\ opened'[i].name = out'.name
    THEN <<>>
  ELSE PriorContent

\* the command's stdout stream (the session's, or the redirection file)
\* received exactly text during the step
OutReceived(text) ==
  IF out'.fd = 1 THEN stdout' = stdout \o text
  ELSE /\ stdout' = stdout
       /\ out'.name \in DOMAIN fs'
       /\ fs'[out'.name].data = ContentAtStart \o text

OpenErrors == {"FileNotFoundError", "IsADirectoryError", "NotADirectoryError"}

\* the redirection extraction of the line read by the step
RedirectOfStep ==
  Redirect([Cur EXCEPT !.cmds = TP, !.out = SysStdout, !.err = SysStderr,
                       !.close_out = FALSE, !.close_err = FALSE,
                       !.branch = "none", !.opened = <<>>])

\* C1: the process terminates only by `exit 0` or by end-of-input; every
\* other line is followed by a new prompt.
C1_TerminatesOnlyOnExitOrEof ==
  pc = "done" => exc \in {"SystemExit", "EOFError"}

\* C2: at every prompt no file opened for redirection by an earlier line is
\* still open.
C2_NoHandleOpenAtPrompt ==
  pc = "prompt" => handles = {}

\* C3 (as stated): the tokens handed to handle_all contain no redirection
\* operator and no token that followed one in the line.
C3_NoRedirectionTokensDispatched ==
  branch # "none" =>
    /\ Range(cmds) \cap RedirectOps = {}
    /\ \A i \in 1..(Len(T) - 1) : T[i] \in RedirectOps => T[i + 1] \notin Range(cmds)

\* C3 (amended): when every operator occurs at most once on the line, none
\* together with its alias, each followed by a target that is not an
\* operator, the tokens handed to handle_all are the line's tokens without
\* the operators and without their targets.
C3_WellFormedLineIsStripped ==
  branch # "none" =>
    \A t \in {T} :
      WellFormed(t) => (cmds = Strip(t) /\ Range(cmds) \cap RedirectOps = {})

C3_Witness ==
  /\ pc = "prompt" /\ branch = "echo" /\ WellFormed(T)
  /\ op_2gt \in Range(T) /\ op_2gtgt \in Range(T)
  /\ cmds = <<w_echo, w_hi>>

\* C4: when a redirection target cannot be opened, the failure is reported
\* on stderr, the command is not executed and the loop goes on to the next
\* prompt.
C4_OpenFailureIsRecoverable ==
  [][(LineStep /\ shlex_split(line').ok /\ RedirectOfStep.exc \in OpenErrors) =>
       (/\ stderr' # stderr
        /\ branch' = "none" /\ ~child'.alive /\ cwd' = cwd
        /\ pc' = "prompt")]_vars

\* C5 (as stated): a builtin whose stdout is redirected writes nothing to
\* the session's stdout; the file holds the command's output (truncate) or
\* its prior content followed by the output (append).
C5_RedirectedBuiltinOutput ==
  [][(LineStep /\ branch' \in Builtins /\ out'.fd >= 3) =>
       (/\ stdout' = stdout
        /\ out'.name \in DOMAIN fs'
        /\ fs'[out'.name].data =
             (IF out'.mode = "w" THEN UnredirectedOutput
              ELSE PriorContent \o UnredirectedOutput))]_vars

\* C5 (amended): as stated, except that with an append operator the prior
\* content is discarded when a truncating redirection processed on the same
\* line opened the same file.
C5_RedirectedBuiltinOutputAmended ==
  [][(LineStep /\ branch' \in Builtins /\ out'.fd >= 3) =>
       (/\ stdout' = stdout
        /\ out'.name \in DOMAIN fs'
        /\ fs'[out'.name].data =
             (IF out'.mode = "w" THEN UnredirectedOutput
              ELSE ContentAtStart \o UnredirectedOutput))]_vars

C5_Witness ==
  /\ pc = "prompt" /\ branch = "echo" /\ nread = 1
  /\ out.fd >= 3 /\ out.mode = "a" /\ out.name = p_f
  /\ fs[p_f].data = <<"p">> \o w_hi \o NL
  /\ stdout = PROMPT

\* C6: a line without tokens is a no-op: nothing is written, nothing
\* changes, the shell prompts again.
C6_EmptyLineIsNoOp ==
  [][(LineStep /\ shlex_split(line').ok /\ TP = <<>>) =>
       (Silent /\ fs' = fs /\ cwd' = cwd /\ pc' = "prompt")]_vars

\* C7 (as stated): a command that is neither a builtin form nor a PathIndex
\* entry writes the full original line followed by ": command not found\n"
\* to stdout, does nothing else, and the next prompt appears.
C7_UnknownCommandEchoesLine ==
  [][(LineStep /\ branch' = "unknown" /\ cmds' # <<>>) =>
       (/\ OutReceived(line' \o <<": command not found\n">>)
        /\ stderr' = stderr /\ cwd' = cwd /\ ~child'.alive
        /\ pc' = "prompt")]_vars

\* C7 (amended): such a command writes the tokens handed to the dispatcher,
\* joined by single spaces and followed by ": command not found\n", to the
\* command's stdout stream (the session's stdout, or the file stdout is
\* redirected to; never stderr), does nothing else, and the next prompt
\* appears.
C7_UnknownCommandEchoesTokens ==
  [][(LineStep /\ branch' = "unknown" /\ cmds' # <<>>) =>
       (/\ OutReceived(Join(cmds', SP) \o <<": command not found\n">>)
        /\ stderr' = stderr /\ cwd' = cwd /\ ~child'.alive
        /\ pc' = "prompt")]_vars

C7_Witness ==
  /\ pc = "prompt" /\ branch = "unknown" /\ nread = 1
  /\ cmds = <<w_nope, w_hi>> /\ line # Join(cmds, SP)
  /\ stdout = PROMPT \o w_nope \o SP \o w_hi \o <<": command not found\n">>

\* C8: cd to a path that does not exist after the `~` substitution leaves
\* the working directory unchanged and reports the argument as typed.
C8_CdMissingShowsTypedArgument ==
  [][(LineStep /\ branch' = "cd" /\ Len(cmds') = 2
        /\ Resolve(cwd, cd_path(cmds'[2])) \notin DOMAIN fs') =>
       (/\ cwd' = cwd
        /\ OutReceived(<<"cd: ">> \o cmds'[2] \o <<": No such file or directory\n">>))]_vars

\* the line is `exit 0`, possibly followed by redirections
IsExit0Line(t) ==
  /\ Len(t) >= 2 /\ t[1] = w_exit /\ t[2] = w_0
  /\ Len(t) % 2 = 0
  /\ \A i \in 3..Len(t) : (i % 2 = 1) <=> (t[i] \in RedirectOps)

\* C9 (as stated): the line `exit 0`, with or without redirections, ends
\* the process with status 0 and without further output.
C9_Exit0Terminates ==
  [][(LineStep /\ shlex_split(line').ok /\ IsExit0Line(TP)) =>
       (pc' = "done" /\ status' = 0 /\ Silent)]_vars

\* C9 (amended): the line `exit 0`, alone or with redirections that use
\* every operator at most once (none with its alias) and whose targets can
\* all be opened, ends the process with status 0 and without further
\* output.
C9_Exit0TerminatesAmended ==
  [][LineStep =>
       \A t \in {TP} :
         (shlex_split(line').ok /\ IsExit0Line(t) /\ WellFormed(t)
            /\ RedirectOfStep.exc = "none") =>
           (pc' = "done" /\ status' = 0 /\ Silent)]_vars

C9_Witness ==
  /\ pc = "done" /\ status = 0 /\ exc = "SystemExit" /\ nread = 2
  /\ IsExit0Line(T) /\ op_gt \in Range(T) /\ cwd = p_h
  /\ stderr = <<>>

\* C10: end-of-input at the prompt ends the process cleanly: success status
\* and no error report.
C10_EofIsCleanExit ==
  (pc = "done" /\ exc = "EOFError") =>
    (status = 0 /\ "Traceback (most recent call last):\n" \notin Range(stderr))

\* the stream fd is open and is the one the file object o stands for
StreamOf(o, fd) ==
  /\ fd = o.fd
  /\ fd \in {1, 2} \/ \E h \in handles' : h.fd = fd /\ h.file = o.name

\* C11: at most one child exists at any time: a child is spawned only when
\* none is alive, it is given the tokens left after redirection extraction
\* as its arguments and the resolved streams as its stdout and stderr, and
\* no prompt is written and no line is read until it has exited.
C11_OneChildAwaited ==
  [][/\ (child'.alive /\ ~child.alive) => pc = "spawn"
     /\ pc = "spawn" => ~child.alive /\ cmds[1] \in DOMAIN PROGRAMS_IN_PATH
     /\ child'.alive =>
          /\ pc' = "wait"
          /\ child'.argv = cmds' /\ cmds' = cmds
          /\ StreamOf(out', child'.stdout) /\ StreamOf(err', child'.stderr)
     /\ child.alive => stdout' # stdout \o PROMPT /\ nread' = nread]_vars

C11_Witness ==
  /\ pc = "wait" /\ child.alive /\ child.writes = 1
  /\ child.argv = <<w_ls, w_hi>>
  /\ out.name = p_g /\ child.stdout = out.fd /\ child.stdout # 1
  /\ err.name = p_f /\ child.stderr = err.fd /\ child.stderr # 2
  /\ fs[p_g].data = <<"o">>

\* the line `type` reports about the name n
TypeReport(n) ==
  IF n \in {w_echo, w_exit, w_type, w_pwd, w_cd} THEN n \o <<" is a shell builtin\n">>
  ELSE IF n \in DOMAIN PROGRAMS_IN_PATH THEN n \o <<" is ">> \o PROGRAMS_IN_PATH[n] \o NL
  ELSE n \o <<": not found\n">>

\* C12: `type s` with exactly one argument writes exactly one line to its
\* stdout and nothing else: `s is a shell builtin` for the five builtin
\* names, even when the PathIndex has a key s; otherwise `s is <path>` with
\* the PathIndex entry of s; otherwise `s: not found`.
C12_TypeReportsOneLine ==
  [][(LineStep /\ branch' # "none" /\ Len(cmds') = 2 /\ cmds'[1] = w_type) =>
       (/\ pc' = "prompt"
        /\ stderr' = stderr
        /\ OutReceived(TypeReport(cmds'[2])))]_vars

C12_Witness ==
  /\ pc = "prompt" /\ nread = 2 /\ T = <<w_type, w_type>>
  /\ w_type \in DOMAIN PROGRAMS_IN_PATH
  /\ stdout = PROMPT \o w_ls \o <<" is ">> \o p_cls \o NL
                \o PROMPT \o w_type \o <<" is a shell builtin\n">>

\* the names that may be offered for the prefix
Candidates(text) ==
  {n \in {w_echo, w_exit, w_type, w_pwd, w_cd} \cup DOMAIN PROGRAMS_IN_PATH :
     Len(n) >= Len(text) /\ \A i \in DOMAIN text : n[i] = text[i]}

\* a precedes b in lexicographic order: they agree on the first k characters
\* and then a ends, or a continues with the smaller character
Precedes(a, b) ==
  \E k \in 0..Len(a) :
    /\ k <= Len(b)
    /\ \A i \in 1..k : a[i] = b[i]
    /\ IF k = Len(a) THEN k < Len(b)
       ELSE k < Len(b) /\ \E i, j \in DOMAIN Letters :
                            Letters[i] = a[k + 1] /\ Letters[j] = b[k + 1] /\ i < j

\* the candidate that has exactly `state` candidates before it, with a
\* trailing space if it is the only one; None past the last candidate
Offered(text, state) ==
  LET C == Candidates(text) IN
  IF state >= Cardinality(C) THEN [some |-> FALSE, value |-> <<>>]
  ELSE LET n == CHOOSE m \in C : Cardinality({k \in C : Precedes(k, m)}) = state
       IN [some |-> TRUE, value |-> IF Cardinality(C) = 1 THEN n \o <<" ">> ELSE n]

\* C13: complete(prefix, state) offers, for state = 0, 1, 2, ..., exactly
\* the builtin names and PathIndex keys that start with the prefix, each
\* once, in lexicographic order, and None after the last; a sole candidate
\* is offered with one trailing space.
C13_CompleteOffersSortedCandidates ==
  completion.called =>
    [some |-> completion.some, value |-> completion.value]
      = Offered(completion.text, completion.state)

C13_Witness ==
  /\ completion.called /\ completion.text = <<"t">> /\ completion.state = 0
  /\ w_type \in DOMAIN PROGRAMS_IN_PATH
  /\ completion.some /\ completion.value = w_type \o <<" ">>

\* every operator token is followed by a token that is not an operator
TargetsAreWords(t) ==
  \A i \in DOMAIN t : t[i] \in RedirectOps => (i < Len(t) /\ t[i + 1] \notin RedirectOps)

\* the token after the first occurrence of op
TargetOf(t, op) == t[(CHOOSE i \in DOMAIN t : t[i] = op /\ \A j \in 1..(i - 1) : t[j] # op) + 1]

\* the destination the fixed order selects among the operators in `order`:
\* the first of them that occurs in the line, else the session's stream
Destination(t, order) ==
  IF \E k \in DOMAIN order : order[k].op \in Range(t)
    THEN LET k == CHOOSE k \in DOMAIN order :
                    order[k].op \in Range(t) /\ \A j \in 1..(k - 1) : order[j].op \notin Range(t)
         IN [session |-> FALSE, target |-> TargetOf(t, order[k].op), mode |-> order[k].mode]
  ELSE [session |-> TRUE, target |-> <<>>, mode |-> "w"]

StdoutOrder ==
  << [op |-> op_gtgt, mode |-> "a"], [op |-> op_1gtgt, mode |-> "a"],
     [op |-> op_gt, mode |-> "w"], [op |-> op_1gt, mode |-> "w"] >>

StderrOrder == << [op |-> op_2gtgt, mode |-> "a"], [op |-> op_2gt, mode |-> "w"] >>

\* the file object o is the session's stream fd, or the file the
\* destination names, opened in its mode
BoundTo(o, d, fd) ==
  IF d.session THEN o.fd = fd
  ELSE o.fd \notin {1, 2} /\ o.name = Resolve(cwd, d.target) /\ o.mode = d.mode

\* C14 (as stated): for any line whose command runs, stdout is bound to the
\* target of `>>` (else `1>>`) if present, else to the target of `>` (else
\* `1>`) if present, else to the session's stdout; stderr likewise to the
\* target of `2>>`, else of `2>`, else the session's stderr.
C14_FixedOrderBinding ==
  [][(LineStep /\ shlex_split(line').ok /\ branch' # "none") =>
       \A t \in {TP} :
         /\ BoundTo(out', Destination(t, StdoutOrder), 1)
         /\ BoundTo(err', Destination(t, StderrOrder), 2)]_vars

\* C14 (amended): the same binding, for any line in which every operator
\* token is followed by a token that is not an operator.
C14_FixedOrderBindingAmended ==
  [][(LineStep /\ shlex_split(line').ok /\ branch' # "none") =>
       \A t \in {TP} :
         TargetsAreWords(t) =>
           /\ BoundTo(out', Destination(t, StdoutOrder), 1)
           /\ BoundTo(err', Destination(t, StderrOrder), 2)]_vars

C14_Witness ==
  /\ pc = "prompt" /\ branch = "echo"
  /\ T = <<w_echo, w_hi, op_gt, p_f, op_gtgt, p_g>>
  /\ out.name = p_g /\ out.mode = "a" /\ err.fd = 2
  /\ fs[p_g].data = w_hi \o NL

\* C15: `cd` with one argument that names an existing path that is not a
\* directory is reported like a missing path: the `No such file or
\* directory` message is written, the working directory is unchanged and
\* the next prompt follows.
C15_CdNonDirectoryReported ==
  [][(LineStep /\ shlex_split(line').ok) =>
       \A r \in {RedirectOfStep} :
         (/\ r.exc = "none" /\ Len(r.cmds) = 2 /\ r.cmds[1] = w_cd
          /\ Resolve(cwd, cd_path(r.cmds[2])) \in DOMAIN r.fs
          /\ r.fs[Resolve(cwd, cd_path(r.cmds[2]))].kind = "file") =>
           (/\ pc' = "prompt"
            /\ cwd' = cwd
            /\ OutReceived(<<"cd: ">> \o cd_path(r.cmds[2])
                             \o <<": No such file or directory\n">>))]_vars

\* the step hands `type` with no argument or with two or more to handle_all
TypeOtherArity ==
  /\ LineStep /\ branch' # "none"
  /\ cmds' # <<>> /\ cmds'[1] = w_type /\ Len(cmds') # 2

\* the step ends in unknown-command handling: the `command not found` line
\* is written, no child is spawned and the next prompt follows
EndsAsUnknown ==
  /\ pc' = "prompt" /\ ~child'.alive
  /\ cwd' = cwd /\ stderr' = stderr
  /\ OutReceived(Join(cmds', SP) \o <<": command not found\n">>)

\* C16 (as stated): `type` with zero arguments or with two or more always
\* ends in unknown-command handling, whatever the PathIndex contains.
C16_TypeOtherArityIsUnknown ==
  [][TypeOtherArity => EndsAsUnknown]_vars

\* C16 (amended): `type` with zero arguments or with two or more ends in
\* unknown-command handling when `type` is not a PathIndex key, and is run
\* as an external command (a child is spawned) when it is one.
C16_TypeOtherArityIsUnknownAmended ==
  [][TypeOtherArity =>
       IF w_type \in DOMAIN PROGRAMS_IN_PATH
         THEN pc' = "spawn" /\ ~child'.alive /\ Silent
       ELSE EndsAsUnknown]_vars

C16_Witness ==
  /\ pc = "prompt" /\ nread = 1 /\ T = <<w_type, w_cd, w_hi>>
  /\ w_type \notin DOMAIN PROGRAMS_IN_PATH
  /\ stdout = PROMPT \o L(<<w_type, w_cd, w_hi>>) \o <<": command not found\n">>

\* the directories of the search path, in listed order
SearchPath == SplitOn(PATH, ":", <<>>)

\* the path of the entry named n directly in the directory at path d
Within(d, n) == IF d = p_root THEN d \o n ELSE d \o <<"/">> \o n

\* the positions of the search path whose directory holds, directly in it,
\* an executable regular file named n
Holders(n) ==
  {i \in DOMAIN SearchPath :
     LET q == Within(Resolve(cwd, SearchPath[i]), n) IN
       q \in DOMAIN fs /\ fs[q].kind = "file" /\ fs[q].x}

\* the final path components that occur in the file system
FileNames ==
  {n \in UNION {{SubSeq(p, i + 1, Len(p)) : i \in DOMAIN p} : p \in DOMAIN fs} :
     n # <<>> /\ "/" \notin Range(n)}

\* C17: the PathIndex construction maps each name to the entry in the last
\* directory of the search path that holds an executable regular file of
\* that name; every other name is absent, files in subdirectories included.
C17_LastDirectoryWins ==
  [][(pc = "start" /\ pc' = "prompt") =>
       (/\ DOMAIN PROGRAMS_IN_PATH' \subseteq FileNames
        /\ \A n \in FileNames :
             IF Holders(n) = {} THEN n \notin DOMAIN PROGRAMS_IN_PATH'
             ELSE /\ n \in DOMAIN PROGRAMS_IN_PATH'
                  /\ \E i \in Holders(n) :
                       /\ \A j \in Holders(n) : j <= i
                       /\ PROGRAMS_IN_PATH'[n] = EntryPath(SearchPath[i], n))]_vars

C17_Witness ==
  /\ pc = "prompt" /\ nread = 0
  /\ Holders(w_ls) = {2, 3} /\ PROGRAMS_IN_PATH[w_ls] = p_cls
  /\ p_cnope \in DOMAIN fs /\ p_bdnope \in DOMAIN fs /\ w_nope \notin DOMAIN PROGRAMS_IN_PATH

\* the positions of the search path whose directory can be listed and
\* holds an executable regular file named n
ReadableHolders(n) == {i \in Holders(n) : fs[Resolve(cwd, SearchPath[i])].r}

\* C18: the PathIndex construction skips a search-path directory that does
\* not exist or cannot be read, without raising an error, and still indexes
\* the entries of the directories after it.
C18_UnreadableDirectoryIsSkipped ==
  [][pc = "start" =>
       (/\ pc' = "prompt"
        /\ stderr' = stderr
        /\ \A n \in FileNames : ReadableHolders(n) # {} => n \in DOMAIN PROGRAMS_IN_PATH')]_vars

\* C19: the working directory changes only by a `cd` line with exactly one
\* argument whose resolved path exists; no step after start-up changes the
\* PathIndex; and `pwd` reports the working directory as it stands, which
\* is the one the last successful `cd` set.
C19_CwdChangesOnlyByCd ==
  [][/\ cwd' # cwd =>
          /\ LineStep
          /\ Len(cmds') = 2 /\ cmds'[1] = w_cd
          /\ cwd' = Resolve(cwd, cd_path(cmds'[2]))
          /\ cwd' \in DOMAIN fs'
     /\ pc # "start" => PROGRAMS_IN_PATH' = PROGRAMS_IN_PATH
     /\ (LineStep /\ branch' # "none" /\ cmds' = <<w_pwd>>) =>
          (cwd' = cwd /\ OutReceived(cwd \o NL))]_vars

C19_Witness ==
  /\ pc = "prompt" /\ nread = 2 /\ T = <<w_pwd>>
  /\ cwd = p_h /\ cwd # p_root
  /\ stdout = PROMPT \o PROMPT \o p_h \o NL

\* the pairs of a truncate operator and an append operator of one channel
TruncateAppendPairs ==
  { <<op_gt, op_gtgt>>, <<op_gt, op_1gtgt>>, <<op_1gt, op_gtgt>>, <<op_1gt, op_1gtgt>>,
    <<op_2gt, op_2gtgt>> }

\* the line t has both operators of the pair, with different target files,
\* and the truncate target is not where either stream of the command goes
TruncateBesideAppend(t, pair) ==
  /\ pair[1] \in Range(t) /\ pair[2] \in Range(t)
  /\ Resolve(cwd, TargetOf(t, pair[1])) # Resolve(cwd, TargetOf(t, pair[2]))
  /\ Resolve(cwd, TargetOf(t, pair[1])) \notin {out'.name, err'.name}

\* the file at path p exists after the step and is empty
EmptyAfter(p) == p \in DOMAIN fs' /\ fs'[p].data = <<>>

=============================================================================
